---- MODULE Spec2Model ----
(***************************************************************************)
(* A model of DonutCorners (src/donut_corners.py): the peak extraction of  *)
(* the sectional score, the score cache, the kernel construction, the      *)
(* basin descent search and the ray-following grid search.                 *)
(*                                                                         *)
(* Arrays keep the source's 0-based indices: an array of length n is a     *)
(* function over 0..n-1.  Python's None is the empty tuple; a value that   *)
(* may be None is held in a one-element tuple.                             *)
(***************************************************************************)
EXTENDS Integers, Sequences, FiniteSets, TLC

VARIABLES
    \* ---- get_max_idx (peak extraction on one means array)
    vals,        \* the array get_max_idx mutates in place
    orig,        \* the array as it was handed to the first call (history)
    maxs,        \* the [arg, val] pairs returned so far, in call order
    w,           \* elimination_width
    no_doubles,  \* elim_double_ends
    gradual,     \* the gradual flag of get_max_idx
    \* ---- the kernel set (__init__ and beam)
    kcfg,        \* beam_length, beam_start, beam_width, fork_spread
    spiral,      \* self.spiral: beam, window cell -> weight; None before beam()
    kstate,      \* "new", "built", or the error construction ended with
    kscore,      \* "none", or whether a score evaluation with this kernel gave nan
    \* ---- the image and the score caches (init, get_score, score_all)
    src_shape,   \* self.src.shape: <<height, width>> or <<height, width, channels>>
    field,       \* what score_point gives at each pixel, as far as it was computed
    scored,      \* self.scored: None, or the array score_all stored
    scored_partial, \* self.scored_partial: pixel -> strength or NaN
    point_info,  \* self.point_info: a dict from points to their info
    gs,          \* the last get_score call and what it did (history)
    prev,        \* pixel -> <<the strength get_score last returned for it>> (history)
    \* ---- the corner list and what a search returns
    corners,     \* self.corners
    top_n,       \* the top_n argument of the search
    top,         \* top = np.argsort(strengths)[-1:-top_n-1:-1]
    ret,         \* the list the search returned
    pc,          \* where the search is: "run", "done", or the error it raised
    \* ---- the basin descent search (find_corners, find_corner)
    basins,      \* self.basins: pixel -> basin id, 0 unclaimed
    fcp,         \* the arguments edge_offset, stop_percent, max_rounds
    loop_i,      \* the loop counter i of find_corners
    calls,       \* how often the maximizer was invoked (history)
    mx,          \* the last maximizer result and whether it was appended (history)
    \* ---- the ray-following search (find_corners_grid, add, search_rays)
    gcfg,        \* beam_length, grid_size, min_grid, sectional, angle_count, single_point
    q,           \* the work queue of tasks <<mode, point, info>>
    mode_points_tried, \* the visited set of <<mode, row, column>>
    dequeues,    \* how many tasks were taken from the queue (history)
    enq,         \* <<mode, row, column>> -> how often add appended it (history)
    last,        \* the task dequeued last and what became of it (history)
    \* ---- one call of search_rays
    rin,         \* its arguments, the image shape and the cached infos
    rout,        \* what it returned
    \* ---- one call of score_point with sectional evaluation
    scfg,        \* angle_count, beam_count, max_n, the elimination width, the means
    sret         \* what it returned

vars_max == <<vals, orig, maxs, w, no_doubles, gradual>>

vars_beam == <<kcfg, spiral, kstate, kscore>>

vars_img == <<src_shape, field, scored, scored_partial, point_info>>

vars_gs == <<gs, prev>>

vars_top == <<corners, top_n, top, ret, pc>>

vars_basin == <<basins, fcp, loop_i, calls, mx>>

vars_grid == <<gcfg, q, mode_points_tried, dequeues, enq, last>>

vars_rays == <<rin, rout>>

vars_sect == <<scfg, sret>>

vars_fn == <<vars_rays, vars_sect>>

vars ==
    <<vars_max, vars_beam, vars_img, vars_gs, vars_top, vars_basin, vars_grid,
      vars_fn>>

None == <<>>

(***************************************************************************)
(* Bounds of the model.                                                    *)
(***************************************************************************)
\* longest means array drawn exhaustively
MaxLen == 4
\* largest entry of an exhaustively drawn means array
MaxVal == 2
\* largest elimination_width drawn
MaxW == 2
\* most successive get_max_idx calls on one array (max_n)
MaxCalls == 3
\* largest beam_length a kernel set is built with
MaxBeamLength == 2
\* largest beam_width a kernel set is built with
MaxBeamWidth == 2
\* largest fork_spread a kernel set is built with
MaxForkSpread == 2
\* largest height and width of an image get_score is called on
MaxDim == 2
\* most pixels of an image get_score is called on
MaxPixels == 2
\* longest corner list the ranking is applied to on its own
MaxCorners == 3
\* largest top_n a search is called with
MaxTopN == 3
\* height and width of the image the basin descent search runs on
BasinDim == 3
\* largest max_rounds find_corners is called with; without max_rounds the model
\* stops the loop after MaxRounds + 1 rounds
MaxRounds == 1
\* largest edge_offset find_corners is called with
MaxEdgeOffset == 2
\* largest height of an image the ray-following search runs on
MaxGridHeight == 1
\* largest width of an image the ray-following search runs on
MaxGridWidth == 3
\* largest max_n of a sectional evaluation
MaxTopAngles == 2
\* width of the one-row image a single search_rays call is made on
MaxRayWidth == 5
\* largest grid_size the ray-following search is configured with
MaxGridSize == 2
\* half of the largest strength score_point gives in the ray-following search
MaxGridStrength == 3
\* strengths are the even numbers 0..2*MaxStrength (so that a half is a number)
MaxStrength == 2

(***************************************************************************)
(* Helpers.                                                                *)
(***************************************************************************)
Abs(x) == IF x < 0 THEN -x ELSE x

Min2(a, b) == IF a <= b THEN a ELSE b

Max2(a, b) == IF a >= b THEN a ELSE b

\* len(vals)
Length(a) == Cardinality(DOMAIN a)

(***************************************************************************)
(* get_max_idx, src/donut_corners.py:203-217.                              *)
(***************************************************************************)
\* np.argmax: the first index holding the maximum
argmax(a) ==
    CHOOSE i \in DOMAIN a :
        /\ \A j \in DOMAIN a : a[j] <= a[i]
        /\ \A j \in DOMAIN a : j < i => a[j] < a[i]

\* a variant of elim_ind that leaves out the upper end of the band
elim_ind_short(arg, width, n) == { (k % n) : k \in (arg - width)..(arg + width - 1) }

\* ind = np.arange(arg-w, arg + w + 1) % len(vals)
elim_ind(arg, width, n) == { (k % n) : k \in (arg - width)..(arg + width) }

\* a variant of double_ind that shifts by a quarter turn instead of a half
double_ind_quarter(ind, n) == { ((k + (n \div 4)) % n) : k \in ind }

\* (ind + len(vals)//2) % len(vals)
double_ind(ind, n) == { ((k + (n \div 2)) % n) : k \in ind }

\* the indices one call zeroes
zeroed(arg, width, nd, gr, n) ==
    LET ind == elim_ind(arg, width, n)
    IN  IF gr THEN ind
        ELSE IF nd THEN ind \cup double_ind(ind, n)
        ELSE ind

\* the array after one call
get_max_idx_vals(a, width, nd, gr) ==
    LET z == zeroed(argmax(a), width, nd, gr, Length(a))
    IN  [i \in DOMAIN a |-> IF i \in z THEN 0 ELSE a[i]]

\* return [arg, val]
get_max_idx_ret(a) == <<argmax(a), a[argmax(a)]>>

\* the synthetic array of the spec: length 24, peak 10 at index 3, peak 8 at s
TwoPeaks(s) == [i \in 0..23 |-> IF i = 3 THEN 10 ELSE IF i = s THEN 8 ELSE 0]

\* every array of length 1..MaxLen over 0..MaxVal (means are absolute values)
SmallArrays == UNION { [0..(n - 1) -> 0..MaxVal] : n \in 1..MaxLen }

\* the variables of get_max_idx while another part of the program is modelled
IdleMax ==
    /\ orig = <<>> /\ vals = <<>> /\ maxs = <<>>
    /\ w = 0 /\ no_doubles = FALSE /\ gradual = FALSE

InitMaxArray ==
    /\ orig \in SmallArrays \cup { TwoPeaks(s) : s \in {15, 16, 18} }
    /\ vals = orig
    /\ maxs = <<>>
    /\ w \in 0..MaxW
    /\ no_doubles \in BOOLEAN
    /\ gradual \in BOOLEAN

\* one call DonutCorners.get_max_idx(vals, w, no_doubles, gradual)
GetMaxIdx ==
    /\ Len(maxs) < MaxCalls
    /\ maxs' = Append(maxs, get_max_idx_ret(vals))
    /\ vals' = get_max_idx_vals(vals, w, no_doubles, gradual)
    /\ UNCHANGED <<orig, w, no_doubles, gradual>>
    /\ UNCHANGED <<vars_beam, vars_img, vars_gs, vars_top, vars_basin, vars_grid, vars_fn>>

(***************************************************************************)
(* The kernel set: __init__ and beam, src/donut_corners.py:20-54, 117-154. *)
(* Kernels are built for four beams, whose directions are the quarter      *)
(* turns; their sines and cosines are taken as the exact 0, 1 and -1.      *)
(* A weight is a fraction <<numerator, denominator>>; nan is <<0, 0>>.     *)
(***************************************************************************)
\* the nan weight
nan == <<0, 0>>

\* the sum of f over the finite set S
RECURSIVE SumOver(_, _)
SumOver(S, f) ==
    IF S = {} THEN 0
    ELSE LET x == CHOOSE y \in S : TRUE
         IN  f[x] + SumOver(S \ {x}, f)

\* beam_uvs = (sin, cos) of np.linspace(0, 2*pi, count, endpoint=False), count = 4
beam_uvs == << <<0, 1>>, <<1, 0>>, <<0, -1>>, <<-1, 0>> >>

\* beam_perps = np.matmul(beam_uvs, rot90), rot90 = [[0, -1], [1, 0]]
beam_perps == [b \in DOMAIN beam_uvs |-> <<beam_uvs[b][2], -beam_uvs[b][1]>>]

\* delta = ind - r over the (d, d) window, d = beam_diameter = 1 + 2 * beam_length
delta(c) == (-c.beam_length..c.beam_length) \X (-c.beam_length..c.beam_length)

\* len_on_line = delta.dot(uv)
len_on_line(b, dl) == dl[1] * beam_uvs[b][1] + dl[2] * beam_uvs[b][2]

\* dist_to_line = delta.dot(perp)
dist_to_line(b, dl) == dl[1] * beam_perps[b][1] + dl[2] * beam_perps[b][2]

\* twice prong1 after the clip to length and side (lines 133, 137)
prong1(c, b, dl) ==
    IF \/ len_on_line(b, dl) < c.beam_start
       \/ len_on_line(b, dl) > c.beam_length
       \/ dist_to_line(b, dl) <= 0
    THEN 0
    ELSE Max2(c.beam_width - Abs(2 * dist_to_line(b, dl) - c.fork_spread), 0)

\* twice prong2 after the clip to length and side (lines 134, 138)
prong2(c, b, dl) ==
    IF \/ len_on_line(b, dl) < c.beam_start
       \/ len_on_line(b, dl) > c.beam_length
       \/ dist_to_line(b, dl) > 0
    THEN 0
    ELSE Min2(-c.beam_width + Abs(2 * dist_to_line(b, dl) + c.fork_spread), 0)

\* np.sum(prong, axis=(1,2)) of beam b
prong1_sum(c, b) == SumOver(delta(c), [dl \in delta(c) |-> prong1(c, b, dl)])

prong2_sum(c, b) == SumOver(delta(c), [dl \in delta(c) |-> prong2(c, b, dl)])

\* numpy's x / y for a prong and its own sum: 0 / 0 is nan (a warning, no exception)
divide(x, y) == IF y = 0 THEN nan ELSE <<x, y>>

\* x - y of two normalized weights
subtract(x, y) ==
    IF x = nan \/ y = nan THEN nan
    ELSE <<x[1] * y[2] - y[1] * x[2], x[2] * y[2]>>

\* spiral = prong1 / sum(prong1) - prong2 / sum(prong2)   (lines 143-147)
beam_spiral(c) ==
    [b \in DOMAIN beam_uvs |->
        [dl \in delta(c) |->
            subtract(divide(prong1(c, b, dl), prong1_sum(c, b)),
                     divide(prong2(c, b, dl), prong2_sum(c, b)))]]

\* spiral_mask = spiral != 0: nan != 0 is True
spiral_mask(sp, b, dl) == sp[b][dl] = nan \/ sp[b][dl][1] # 0

\* whether np.mean(w * i) of beam b is nan: a nan weight in its support, or an
\* empty support
mean_is_nan(sp, b) ==
    \/ \E dl \in DOMAIN sp[b] : spiral_mask(sp, b, dl) /\ sp[b][dl] = nan
    \/ \A dl \in DOMAIN sp[b] : ~spiral_mask(sp, b, dl)

\* score_point with this kernel set (amorphous: the mean of the means)
score_is_nan(sp) == \E b \in DOMAIN sp : mean_is_nan(sp, b)

IdleBeam ==
    /\ kcfg = [beam_length |-> 0, beam_start |-> 0, beam_width |-> 0, fork_spread |-> 0]
    /\ spiral = None /\ kstate = "new" /\ kscore = "none"

\* the configurations DonutCorners(**kwargs) is constructed with
InitBeamConfig ==
    /\ kcfg \in [beam_length : 1..MaxBeamLength,
                 beam_start : 0..(MaxBeamLength + 1),
                 beam_width : 0..MaxBeamWidth,
                 fork_spread : 0..MaxForkSpread]
    /\ spiral = None
    /\ kstate = "new"
    /\ kscore = "none"

\* __init__: self.beam() stores the kernel set; nothing in it raises
Beam ==
    /\ kstate = "new"
    /\ spiral' = beam_spiral(kcfg)
    /\ kstate' = "built"
    /\ UNCHANGED <<kcfg, kscore>>
    /\ UNCHANGED <<vars_max, vars_img, vars_gs, vars_top, vars_basin, vars_grid, vars_fn>>

\* a later score evaluation with the stored kernel set
ScoreWithKernel ==
    /\ kstate = "built"
    /\ kscore = "none"
    /\ kscore' = IF score_is_nan(spiral) THEN "nan" ELSE "finite"
    /\ UNCHANGED <<kcfg, spiral, kstate>>
    /\ UNCHANGED <<vars_max, vars_img, vars_gs, vars_top, vars_basin, vars_grid, vars_fn>>

(***************************************************************************)
(* The image and the score caches: init, get_score, score_all,             *)
(* out_of_bounds, src/donut_corners.py:57-68, 158-180, 224-236, 280-281.   *)
(* score_point is a function of the image and the kernel set alone; the    *)
(* model draws its value at a pixel when it is first computed and keeps it *)
(* in field, so that every later computation at that pixel gives the same. *)
(***************************************************************************)
\* np.NaN in an array of strengths, none of which is negative
NaN == -1

\* the strengths score_point can give
Strengths == { 2 * k : k \in 0..MaxStrength }

\* the results of score_point without sectional evaluation: (np.mean(means),)
AmorphousInfos == { <<s>> : s \in Strengths }

\* the cells of the arrays init allocates: self.dims = self.src.shape[:2]
Pixels(shape) == (0..(shape[1] - 1)) \X (0..(shape[2] - 1))

\* self.src.shape[:-1]
shape_but_last(shape) == SubSeq(shape, 1, Len(shape) - 1)

\* point < lim, with numpy's broadcast of a one-element lim
below(p, lim) ==
    IF Len(lim) = 1 THEN <<p[1] < lim[1], p[2] < lim[1]>>
    ELSE <<p[1] < lim[1], p[2] < lim[2]>>

\* not np.all((point >= 0) & (point < self.src.shape[:-1]))
out_of_bounds(shape, p) ==
    ~ (\A k \in 1..2 : p[k] >= 0 /\ below(p, shape_but_last(shape))[k])

\* the fields that agree with fld where it was computed and are computed on S,
\* score_point's results drawn from D
ComputedOn(fld, U, D) ==
    { [p \in DOMAIN fld |-> IF p \in U THEN g[p] ELSE fld[p]] : g \in [U -> D] }

\* the same, S being the pixels score_point is called on
Computed(fld, S, D) == ComputedOn(fld, { p \in S : fld[p] = None }, D)

\* d[k] = v on a dict
DictPut(d, k, v) == [x \in DOMAIN d \cup {k} |-> IF x = k THEN v ELSE d[x]]

IdleImage ==
    /\ src_shape = <<>> /\ field = <<>> /\ scored = None
    /\ scored_partial = <<>> /\ point_info = <<>>

\* gs before any call
NoCall ==
    [kind |-> "none", point |-> <<0, 0>>, inform |-> FALSE, strength |-> 0,
     sentinel |-> FALSE, computed |-> FALSE, cache_read |-> FALSE,
     cache_write |-> FALSE, before |-> None]

IdleGetScore == gs = NoCall /\ prev = <<>>

\* init(image) on an image of one of the given shapes
InitImage(shapes) ==
    /\ src_shape \in shapes
    /\ field = [p \in Pixels(src_shape) |-> None]
    /\ scored = None
    /\ scored_partial = [p \in Pixels(src_shape) |-> NaN]
    /\ point_info = <<>>

\* the points get_score is called with: every pixel and a border around it
Points == (-1..MaxDim) \X (-1..MaxDim)

\* the heights and widths of the images get_score is called on
ScoreDims == { d \in (1..MaxDim) \X (1..MaxDim) : d[1] * d[2] <= MaxPixels }

\* images without and with a channel axis
ScoreShapes == ScoreDims \cup { <<d[1], d[2], 3>> : d \in ScoreDims }

\* what a call leaves in gs
Call(kind, p, inform, strength, sentinel, computed, rd, wr) ==
    [kind |-> kind, point |-> p, inform |-> inform, strength |-> strength,
     sentinel |-> sentinel, computed |-> computed, cache_read |-> rd,
     cache_write |-> wr, before |-> IF p \in DOMAIN prev THEN prev[p] ELSE None]

\* get_score(point, inform), score_point's results drawn from D
GetScore(p, inform, D) ==
    IF out_of_bounds(src_shape, p)
    THEN \* return 0
         /\ gs' = Call("returned", p, inform, 0, TRUE, FALSE, FALSE, FALSE)
         /\ UNCHANGED <<vars_img, prev>>
    ELSE IF p \notin Pixels(src_shape)
    THEN \* indexing the arrays at a cell they do not have raises IndexError
         /\ gs' = Call("IndexError", p, inform, 0, FALSE, FALSE, TRUE, FALSE)
         /\ UNCHANGED <<vars_img, prev>>
    ELSE IF inform
    THEN IF p \in DOMAIN point_info
         THEN \* return self.point_info[tp][0], self.point_info[tp], True
              /\ gs' = Call("returned", p, inform, point_info[p][1], FALSE, FALSE, TRUE, FALSE)
              /\ prev' = [prev EXCEPT ![p] = <<point_info[p][1]>>]
              /\ UNCHANGED vars_img
         ELSE \* info = self.score_point(point), stored in both caches
              \E fld \in Computed(field, {p}, D) :
                /\ field' = fld
                /\ point_info' = DictPut(point_info, p, fld[p])
                /\ scored_partial' = [scored_partial EXCEPT ![p] = fld[p][1]]
                /\ gs' = Call("returned", p, inform, fld[p][1], FALSE, TRUE, TRUE, TRUE)
                /\ prev' = [prev EXCEPT ![p] = <<fld[p][1]>>]
                /\ UNCHANGED <<src_shape, scored>>
    ELSE IF scored # None
    THEN \* return self.scored[point[0],point[1]]
         /\ gs' = Call("returned", p, inform, scored[p], FALSE, FALSE, TRUE, FALSE)
         /\ prev' = [prev EXCEPT ![p] = <<scored[p]>>]
         /\ UNCHANGED vars_img
    ELSE IF scored_partial[p] = NaN
    THEN \* self.scored_partial[...] = self.score_point(point)[0]
         \E fld \in Computed(field, {p}, D) :
            /\ field' = fld
            /\ scored_partial' = [scored_partial EXCEPT ![p] = fld[p][1]]
            /\ gs' = Call("returned", p, inform, fld[p][1], FALSE, TRUE, TRUE, TRUE)
            /\ prev' = [prev EXCEPT ![p] = <<fld[p][1]>>]
            /\ UNCHANGED <<src_shape, scored, point_info>>
    ELSE \* return self.scored_partial[point[0],point[1]]
         /\ gs' = Call("returned", p, inform, scored_partial[p], FALSE, FALSE, TRUE, FALSE)
         /\ prev' = [prev EXCEPT ![p] = <<scored_partial[p]>>]
         /\ UNCHANGED vars_img

\* a caller's get_score(point, inform) on an image scored without sections
CallGetScore ==
    /\ \E p \in Points : \E inform \in BOOLEAN : GetScore(p, inform, AmorphousInfos)
    /\ UNCHANGED <<vars_max, vars_beam, vars_top, vars_basin, vars_grid, vars_fn>>

\* score_all: self.scored = score_point(...)[0] of every pixel
ScoreAll ==
    /\ scored = None
    /\ \E fld \in Computed(field, Pixels(src_shape), AmorphousInfos) :
        /\ field' = fld
        /\ scored' = [p \in Pixels(src_shape) |-> fld[p][1]]
    /\ UNCHANGED <<src_shape, scored_partial, point_info>>
    /\ UNCHANGED <<vars_max, vars_beam, vars_gs, vars_top, vars_basin, vars_grid, vars_fn>>

(***************************************************************************)
(* The ranking both searches end with, src/donut_corners.py:275-277 and    *)
(* 392-394.  A corner is a tuple whose first element is its strength; the  *)
(* list self.corners is a sequence, so Python's index i is i + 1 here.     *)
(***************************************************************************)
\* strengths = [a[0] for a in self.corners], as an array
strengths_of(cs) == [i \in 0..(Len(cs) - 1) |-> cs[i + 1][1]]

\* the orders np.argsort may give: every permutation that sorts ascending
argsort(a) ==
    { o \in [DOMAIN a -> DOMAIN a] :
        /\ \A i, j \in DOMAIN a : i # j => o[i] # o[j]
        /\ \A i, j \in DOMAIN a : i < j => a[o[i]] <= a[o[j]] }

\* Python's bounds of a[start:stop:-1] on an array of length n
slice_from(n, start) ==
    LET k == IF start < 0 THEN start + n ELSE start
    IN  IF k < 0 THEN -1 ELSE IF k >= n THEN n - 1 ELSE k

\* a variant of reversed_slice that stops one element early: a[-1:stop+1:-1]
reversed_slice_early(a, start, stop) ==
    LET n == Length(a)
        hi == slice_from(n, start)
        lo == slice_from(n, stop + 1)
    IN  [k \in 1..Max2(hi - lo, 0) |-> a[hi - (k - 1)]]

\* a[start:stop:-1] as a sequence
reversed_slice(a, start, stop) ==
    LET n == Length(a)
        hi == slice_from(n, start)
        lo == slice_from(n, stop)
    IN  [k \in 1..Max2(hi - lo, 0) |-> a[hi - (k - 1)]]

\* the values top may take: np.argsort(strengths)[-1:-top_n-1:-1]
top_of(cs, n) == { reversed_slice(o, -1, -n - 1) : o \in argsort(strengths_of(cs)) }

\* return [self.corners[i] for i in top]
pick(cs, t) == [k \in 1..Len(t) |-> cs[t[k] + 1]]

IdleTop ==
    /\ corners = <<>> /\ top_n = 0 /\ top = <<>> /\ ret = <<>> /\ pc = "idle"

\* corners of the basin descent search: (strength, row, column)
CornerPool == { <<s, 0, c>> : s \in Strengths, c \in 0..1 }

\* every list of at most n corners
RECURSIVE ListsUpTo(_, _)
ListsUpTo(S, n) ==
    IF n = 0 THEN { <<>> }
    ELSE LET shorter == ListsUpTo(S, n - 1)
         IN  shorter \cup { Append(l, x) : l \in { m \in shorter : Len(m) = n - 1 }, x \in S }

\* a search about to rank its corner list
InitRanking ==
    /\ corners \in ListsUpTo(CornerPool, MaxCorners)
    /\ top_n \in 0..MaxTopN
    /\ top = <<>>
    /\ ret = <<>>
    /\ pc = "run"

\* the last three lines of find_corners and of find_corners_grid
Rank ==
    /\ pc = "run"
    /\ \E t \in top_of(corners, top_n) :
        /\ top' = t
        /\ ret' = pick(corners, t)
    /\ pc' = "done"
    /\ UNCHANGED <<corners, top_n>>
    /\ UNCHANGED <<vars_max, vars_beam, vars_img, vars_gs, vars_basin, vars_grid, vars_fn>>

(***************************************************************************)
(* The basin descent search: find_corner and find_corners,                 *)
(* src/donut_corners.py:239-277.  The maximizer simplex_descent_quantized  *)
(* is not part of the repository: it is modelled by its contract, as any   *)
(* choice of painted pixels, exit cause and result position, the value it  *)
(* reports being the objective at that position.                           *)
(***************************************************************************)
\* Python's a[start:stop] on an axis of length n, as the set of indices
forward_slice(n, start, stop) ==
    LET lo == IF start < 0 THEN Max2(start + n, 0) ELSE Min2(start, n)
        hi == IF stop < 0 THEN Max2(stop + n, 0) ELSE Min2(stop, n)
    IN  { k \in 0..(n - 1) : lo <= k /\ k < hi }

\* the cells of self.basins[edge_offset:-edge_offset, edge_offset:-edge_offset]
interior(shape, eo) ==
    forward_slice(shape[1], eo, -eo) \X forward_slice(shape[2], eo, -eo)

\* np.argwhere(self.basins == 0)
true_ind(b) == { p \in DOMAIN b : b[p] = 0 }

\* the pixels one maximizer run may paint, started at start
Paints(start) == { {}, {start}, Pixels(src_shape) }

\* the exit causes of the maximizer
ExitCauses == { "maximum found", "max iterations reached" }

\* the positions one maximizer run may report
ResultPositions(start, cs) == {start} \cup { <<cs[k][2], cs[k][3]>> : k \in 1..Len(cs) }

\* a variant of in_corners with != in place of ==
in_corners_ne(res, cs) == \E k \in 1..Len(cs) : \A j \in 1..3 : res[j] # cs[k][j]

\* np.any([np.all(res == c) for c in self.corners])
in_corners(res, cs) == \E k \in 1..Len(cs) : \A j \in 1..3 : res[j] = cs[k][j]

\* whether find_corner appends the result
appends(exit_cause, res, cs) == exit_cause = "maximum found" /\ ~in_corners(res, cs)

\* np.mean(self.basins != 0) > stop_percent, stop_percent in hundredths
over_stop_percent(b, sp) ==
    Cardinality({ p \in DOMAIN b : b[p] # 0 }) * 100 > sp * Cardinality(DOMAIN b)

IdleBasin ==
    /\ basins = <<>> /\ loop_i = 0 /\ calls = 0
    /\ fcp = [edge_offset |-> 0, stop_percent |-> None, max_rounds |-> None]
    /\ mx = [exit_cause |-> "", x |-> <<0, 0>>, appended |-> FALSE]

\* init(image) on a colour image, then find_corners(...) entered
InitFindCorners ==
    /\ InitImage({ <<BasinDim, BasinDim, 3>> })
    /\ gs = NoCall
    /\ prev = [p \in Pixels(src_shape) |-> None]
    /\ basins = [p \in Pixels(src_shape) |-> 0]
    /\ corners = <<>>
    /\ fcp \in [edge_offset : 0..MaxEdgeOffset,
                stop_percent : { None, <<50>> },
                max_rounds : { None } \cup { <<n>> : n \in 0..MaxRounds }]
    /\ top_n \in 0..MaxTopN
    /\ loop_i = 0
    /\ calls = 0
    /\ mx = [exit_cause |-> "", x |-> <<0, 0>>, appended |-> FALSE]
    /\ top = <<>> /\ ret = <<>> /\ pc = "run"

\* lines 275-277 on the corner list cs
RankAndReturn(cs) ==
    /\ \E t \in top_of(cs, top_n) :
        /\ top' = t
        /\ ret' = pick(cs, t)
    /\ pc' = "done"

\* one pass of the while loop: find_corner from a random unclaimed pixel, then
\* the two break tests (lines 265-273), and the ranking if the loop is left
FindCornersRound ==
    /\ pc = "run"
    /\ interior(src_shape, fcp.edge_offset) # {}
    /\ \E p \in interior(src_shape, fcp.edge_offset) : basins[p] = 0
    /\ calls <= MaxRounds
    /\ \E start \in true_ind(basins) :
       \E painted \in Paints(start) :
       \E x \in ResultPositions(start, corners) :
       \E exit_cause \in ExitCauses :
        /\ GetScore(x, FALSE, AmorphousInfos)
        /\ basins' = [p \in DOMAIN basins |-> IF p \in painted THEN 1 ELSE basins[p]]
        /\ LET res == <<gs'.strength, x[1], x[2]>>
               app == appends(exit_cause, res, corners)
               cs == IF app THEN Append(corners, res) ELSE corners
           IN  /\ corners' = cs
               /\ mx' = [exit_cause |-> exit_cause, x |-> x, appended |-> app]
               /\ calls' = calls + 1
               /\ IF \/ (fcp.stop_percent # None
                            /\ over_stop_percent(basins', fcp.stop_percent[1]))
                     \/ (fcp.max_rounds # None /\ loop_i >= fcp.max_rounds[1])
                  THEN RankAndReturn(cs) /\ loop_i' = loop_i
                  ELSE loop_i' = loop_i + 1 /\ UNCHANGED <<top, ret, pc>>
    /\ UNCHANGED <<fcp, top_n>>
    /\ UNCHANGED <<vars_max, vars_beam, vars_grid, vars_fn>>

\* the while condition is false: every interior pixel is claimed
FindCornersCovered ==
    /\ pc = "run"
    /\ interior(src_shape, fcp.edge_offset) # {}
    /\ \A p \in interior(src_shape, fcp.edge_offset) : basins[p] # 0
    /\ RankAndReturn(corners)
    /\ UNCHANGED <<corners, top_n, vars_basin>>
    /\ UNCHANGED <<vars_max, vars_beam, vars_img, vars_gs, vars_grid, vars_fn>>

\* np.min of an empty slice raises ValueError
FindCornersEmptySlice ==
    /\ pc = "run"
    /\ interior(src_shape, fcp.edge_offset) = {}
    /\ pc' = "ValueError"
    /\ UNCHANGED <<corners, top_n, top, ret, vars_basin>>
    /\ UNCHANGED <<vars_max, vars_beam, vars_img, vars_gs, vars_grid, vars_fn>>

(***************************************************************************)
(* The ray-following search: find_corners_grid with its add, and           *)
(* search_rays, src/donut_corners.py:284-394.  One action is one pass of   *)
(* the while loop.  Angles are counted in eighths of a turn, distances in  *)
(* tenths of a pixel.  Sectional scoring is taken with max_n = 1 and       *)
(* beam_count = angle_count, so that an info is                            *)
(* <<strength, <<angle>>, <<beam strength>>, <<beam id>>>>.                *)
(***************************************************************************)
\* 10000 * sin of k eighths of a turn, k = 0..7
sin8 == <<0, 7071, 10000, 7071, 0, -7071, -10000, -7071>>

\* 10000 * np.sin(angle)
sin_of(angle) == sin8[(angle % 8) + 1]

\* 10000 * np.cos(angle)
cos_of(angle) == sin8[((angle + 2) % 8) + 1]

\* np.round(n / d), halves to the even neighbour, d > 0
round_half_even(n, d) ==
    LET fl == n \div d
        r == n % d
    IN  IF 2 * r < d THEN fl
        ELSE IF 2 * r > d THEN fl + 1
        ELSE IF fl % 2 = 0 THEN fl ELSE fl + 1

\* np.round(dist * np.array((np.sin(angle), np.cos(angle)))).astype(int)
ray_offset(angle, dist) ==
    <<round_half_even(dist * sin_of(angle), 100000),
      round_half_even(dist * cos_of(angle), 100000)>>

\* brute_angles = pi * np.arange(8) / 4
brute_angles == [k \in 1..8 |-> k - 1]

\* self.baked_angles[id], for angle_count 4 or 8
baked_angle(angle_count, id) == id * (8 \div angle_count)

\* the dists of each mode, lines 349-363
ray_dists(mode, beam_length) ==
    IF mode = 2 THEN [k \in 1..6 |-> <<-7, -5, -3, 3, 5, 7>>[k] * beam_length]
    ELSE IF mode = 3 THEN <<-56, -28, -14, 14, 28, 56>>
    ELSE IF mode = 4 THEN <<14>>
    ELSE [k \in 1..6 |-> <<-20, -15, -10, 10, 15, 20>>[k] * beam_length]

\* the strengths score_point can give in the ray-following search
GridStrengths == { 2 * k : k \in 0..MaxGridStrength }

\* the results of score_point with sectional evaluation
SectionalInfos(angle_count) ==
    { <<s, <<baked_angle(angle_count, id)>>, <<s>>, <<id>>>> :
        s \in GridStrengths, id \in 0..(angle_count - 1) }

\* what score_point gives under a configuration
GridInfos(cfg) ==
    IF cfg.sectional THEN SectionalInfos(cfg.angle_count) ELSE AmorphousInfos

\* np.arange(start, stop, step), step > 0
arange(start, stop, step) ==
    [k \in 1..(IF stop > start THEN (stop - start + step - 1) \div step ELSE 0)
        |-> start + (k - 1) * step]

\* grid_points: the seed grid, column by column
grid_points(shape, grid_size) ==
    LET rows == arange(grid_size \div 2, shape[1], grid_size)
        cols == arange(grid_size \div 2, shape[2], grid_size)
        nr == Length(rows)
    IN  [k \in 1..(nr * Length(cols)) |->
            <<rows[((k - 1) % nr) + 1], cols[((k - 1) \div nr) + 1]>>]

\* the queue after lines 316-326
seeded(shape, cfg) ==
    IF cfg.single_point # None THEN << <<1, cfg.single_point, None>> >>
    ELSE LET g == grid_points(shape, cfg.grid_size)
         IN  [k \in 1..Length(g) |-> <<1, g[k], None>>]

\* tp = (data[0],) + tuple(data[1])
tp_of(data) == <<data[1], data[2][1], data[2][2]>>

\* a variant of add_tried that records nothing
add_tried_forgets(tried, data) == tried

\* mode_points_tried after add(data)
add_tried(tried, data) == tried \cup { tp_of(data) }

\* the queue after add(data)
add_queue(queue, tried, data) ==
    IF tp_of(data) \notin tried THEN Append(queue, data) ELSE queue

\* the (new_i, new_p) of the two loops of search_rays, in their order
ray_probes(point, angles, dists) ==
    [k \in 1..(Length(angles) * Length(dists)) |->
        LET angle == angles[((k - 1) \div Length(dists)) + 1]
            new_i == (k - 1) % Length(dists)
            off == ray_offset(angle, dists[new_i + 1])
        IN  [new_i |-> new_i, new_p |-> <<point[1] + off[1], point[2] + off[2]>>]]

\* the first probe at which assert not np.all(new_p == point) fails, or one
\* past the last probe
fail_at(pr, point) ==
    LET bad == { k \in DOMAIN pr : pr[k].new_p = point }
    IN  IF bad = {} THEN Length(pr) + 1
        ELSE CHOOSE k \in bad : \A j \in bad : k <= j

\* the in-bounds points among the probes before probe stop
probed_before(shape, pr, stop) ==
    { pr[k].new_p : k \in { j \in DOMAIN pr : j < stop
                                /\ ~out_of_bounds(shape, pr[j].new_p) } }

\* the points search_rays calls get_score on
probed(shape, pr, point) == probed_before(shape, pr, fail_at(pr, point))

\* point_info after get_score(p, True) for every p of S, score_point given by fld
informed(pi, S, fld) ==
    [x \in (DOMAIN pi) \cup S |-> IF x \in DOMAIN pi THEN pi[x] ELSE fld[x]]

\* scored_partial after get_score(p, True) for every p of S
partial_after(sp, pi, S, fld) ==
    [x \in DOMAIN sp |-> IF x \in S \ DOMAIN pi THEN fld[x][1] ELSE sp[x]]

\* a variant of mode_signal that takes every best index as an interior one
mode_signal_interior(best_i, n_angles) == IF best_i = -1 THEN -1 ELSE 1

\* lines 297-302
mode_signal(best_i, n_angles) ==
    IF best_i = -1 THEN -1
    ELSE IF best_i = 0 \/ best_i = n_angles - 1 THEN 0
    ELSE 1

\* the loops of search_rays from probe k to probe n, get_score answering from pi
RECURSIVE best_from(_, _, _, _, _, _)
best_from(shape, pi, pr, k, n, best) ==
    IF k > n THEN best
    ELSE IF out_of_bounds(shape, pr[k].new_p)
         THEN best_from(shape, pi, pr, k + 1, n, best)
         ELSE LET new_info == pi[pr[k].new_p]
              IN  IF new_info[1] > best.v
                  THEN best_from(shape, pi, pr, k + 1, n,
                          [v |-> new_info[1], p |-> pr[k].new_p,
                           i |-> pr[k].new_i, info |-> new_info])
                  ELSE best_from(shape, pi, pr, k + 1, n, best)

\* what search_rays returns when its loops end with best: (mode, best_p,
\* best_info), or the failed assertion
rays_result(best, failed, n_angles) ==
    [failed |-> failed, mode |-> mode_signal(best.i, n_angles),
     p |-> best.p, info |-> best.info]

\* search_rays on the probes pr, of which the assertion fails at probe stop
search_probes(shape, pi, point, pr, stop, n_angles, info) ==
    rays_result(best_from(shape, pi, pr, 1, stop - 1,
                    [v |-> info[1], p |-> point, i |-> -1, info |-> info]),
                stop <= Length(pr), n_angles)

\* search_rays(point, angles, dists, info)
search_rays(shape, pi, point, pr, n_angles, info) ==
    search_probes(shape, pi, point, pr, fail_at(pr, point), n_angles, info)

\* a variant of halved that leaves the strength as it is
halved_not(info) == info

\* a variant of halved that leaves a quarter of the strength
quartered(info) == <<info[1] \div 4>> \o Tail(info)

\* info2 = (info2[0]*0.5,) + info2[1:]; strengths are even
halved(info) == <<info[1] \div 2>> \o Tail(info)

\* whether lines 365-368 append a corner
found_local_max(mode, mode_add) == mode_add = -1 /\ mode = 4

\* a variant of follow_up without the branch for mode 5
follow_up_unbranched(mode, mode_add, point2, info2) ==
    IF mode_add = -1 /\ mode = 4 THEN <<5, point2, <<info2[1] \div 2>> \o Tail(info2)>>
    ELSE <<mode + Abs(mode_add), point2, info2>>

\* a variant of follow_up that adds the signal itself, not its absolute value
follow_up_signed(mode, mode_add, point2, info2) ==
    IF mode_add = -1 /\ mode = 4 THEN <<5, point2, <<info2[1] \div 2>> \o Tail(info2)>>
    ELSE IF mode = 5
         THEN IF mode_add # -1 THEN <<2, point2, info2>> ELSE None
         ELSE <<mode + mode_add, point2, info2>>

\* the task lines 365-380 hand to add, None if they hand none
follow_up(mode, mode_add, point2, info2) ==
    IF found_local_max(mode, mode_add) THEN <<5, point2, halved(info2)>>
    ELSE IF mode = 5
         THEN IF mode_add # -1 THEN <<2, point2, info2>> ELSE None
         ELSE <<mode + Abs(mode_add), point2, info2>>

\* last before any task was dequeued
NoTask ==
    [mode |-> 0, point |-> <<0, 0>>, mode_add |-> 0, point2 |-> <<0, 0>>,
     offered |-> None, added |-> FALSE]

IdleGrid ==
    /\ gcfg = [beam_length |-> 0, grid_size |-> 0, min_grid |-> 0,
               sectional |-> FALSE, angle_count |-> 0, single_point |-> None]
    /\ q = <<>> /\ mode_points_tried = {} /\ dequeues = 0 /\ enq = <<>>
    /\ last = NoTask

\* the heights and widths of the images the ray-following search runs on
GridDims == (1..MaxGridHeight) \X (2..MaxGridWidth)

\* the images the ray-following search runs on, without and with a channel axis
GridShapes == GridDims \cup { <<d[1], d[2], 3>> : d \in GridDims }

\* the single_point arguments: none, the first pixel, and the point right of
\* the first row
SinglePoints(shape) == { None, <<0, 0>>, <<0, shape[2]>> }

\* init(image), then find_corners_grid(...) up to the while loop
InitFindCornersGrid ==
    /\ InitImage(GridShapes)
    /\ IdleGetScore
    /\ gcfg \in [beam_length : 1..MaxBeamLength, grid_size : 1..MaxGridSize,
                 min_grid : {1, 5}, sectional : BOOLEAN, angle_count : {4},
                 single_point : SinglePoints(src_shape)]
    /\ q = seeded(src_shape, gcfg)
    /\ mode_points_tried = {}
    /\ corners = <<>>
    /\ top_n \in 0..MaxTopN
    /\ top = <<>> /\ ret = <<>> /\ pc = "run"
    /\ dequeues = 0 /\ enq = <<>> /\ last = NoTask

\* lines 383-394: leave the loop on an empty queue, rank and return
GridLoopEnd(queue, cs) ==
    IF Len(queue) = 0 THEN RankAndReturn(cs) ELSE UNCHANGED <<top, ret, pc>>

\* what add(data) does to the queue and the visited set, and the history of it
GridAdd(rest, data, mode, point, mode_add, point2, cs) ==
    LET queue == IF data = None THEN rest
                 ELSE add_queue(rest, mode_points_tried, data)
        added == Len(queue) > Len(rest)
    IN  /\ q' = queue
        /\ mode_points_tried' = IF data = None THEN mode_points_tried
                                ELSE add_tried(mode_points_tried, data)
        /\ enq' = IF added
                  THEN DictPut(enq, tp_of(data),
                          IF tp_of(data) \in DOMAIN enq THEN enq[tp_of(data)] + 1 ELSE 1)
                  ELSE enq
        /\ last' = [mode |-> mode, point |-> point, mode_add |-> mode_add,
                    point2 |-> point2,
                    offered |-> IF data = None THEN None ELSE tp_of(data),
                    added |-> added]
        /\ GridLoopEnd(queue, cs)

\* a pass of the loop that ends in an exception
GridRaise(error, mode, point) ==
    /\ pc' = error
    /\ q' = Tail(q)
    /\ last' = [NoTask EXCEPT !.mode = mode, !.point = point, !.point2 = point]
    /\ UNCHANGED <<mode_points_tried, enq, corners, top_n, top, ret>>

\* a pass of the loop on a mode-1 task, lines 343-346
DequeueSeed ==
    /\ pc = "run" /\ Len(q) > 0 /\ Head(q)[1] = 1
    /\ dequeues' = dequeues + 1
    /\ LET point == Head(q)[2]
       IN  IF out_of_bounds(src_shape, point)
           THEN \* get_score returns the bare 0, which does not unpack into three
                /\ GridRaise("TypeError", 1, point)
                /\ UNCHANGED vars_img
           ELSE \E fld \in Computed(field, {point}, GridInfos(gcfg)) :
                LET pi == informed(point_info, {point}, fld)
                    info == pi[point]
                IN  /\ field' = fld
                    /\ point_info' = pi
                    /\ scored_partial' = partial_after(scored_partial, point_info, {point}, fld)
                    /\ UNCHANGED <<src_shape, scored>>
                    /\ GridAdd(Tail(q),
                               IF info[1] > gcfg.min_grid THEN <<2, point, info>> ELSE None,
                               1, point, 0, point, corners)
                    /\ UNCHANGED <<corners, top_n>>
    /\ UNCHANGED gcfg
    /\ UNCHANGED <<vars_max, vars_beam, vars_gs, vars_basin, vars_fn>>

\* a pass of the loop on a task of mode m in 2..5, lines 348-380
DequeueRays(m) ==
    /\ pc = "run" /\ Len(q) > 0 /\ Head(q)[1] = m
    /\ dequeues' = dequeues + 1
    /\ LET point == Head(q)[2]
           info == Head(q)[3]
       IN  IF m # 4 /\ Len(info) < 2
           THEN \* angles = info[1] on the one-element info of amorphous scoring
                /\ GridRaise("IndexError", m, point)
                /\ UNCHANGED vars_img
           ELSE LET angles == IF m = 4 THEN brute_angles ELSE info[2]
                    dists == ray_dists(m, gcfg.beam_length)
                IN  \E pr \in { ray_probes(point, angles, dists) } :
                    \E S \in { probed(src_shape, pr, point) } :
                    \E fld \in Computed(field, S, GridInfos(gcfg)) :
                    \E pi \in { informed(point_info, S, fld) } :
                    \E res \in { search_rays(src_shape, pi, point, pr, Length(angles), info) } :
                    LET cs == IF found_local_max(m, res.mode)
                              THEN Append(corners, <<res.info[1], res.p, res.info>>)
                              ELSE corners
                    IN  /\ field' = fld
                        /\ point_info' = pi
                        /\ scored_partial' = partial_after(scored_partial, point_info, S, fld)
                        /\ UNCHANGED <<src_shape, scored>>
                        /\ IF res.failed
                           THEN GridRaise("AssertionError", m, point)
                           ELSE /\ corners' = cs
                                /\ GridAdd(Tail(q), follow_up(m, res.mode, res.p, res.info),
                                           m, point, res.mode, res.p, cs)
                                /\ UNCHANGED top_n
    /\ UNCHANGED gcfg
    /\ UNCHANGED <<vars_max, vars_beam, vars_gs, vars_basin, vars_fn>>

\* mode 2: following rays long dist
FollowLong == DequeueRays(2)

\* mode 3: following rays short dist
FollowShort == DequeueRays(3)

\* mode 4: brute force immediate area
BruteForce == DequeueRays(4)

\* mode 5: check super long dist rays for other corners
CheckLong == DequeueRays(5)

\* q.popleft() on an empty deque raises IndexError
PopEmpty ==
    /\ pc = "run" /\ Len(q) = 0
    /\ pc' = "IndexError"
    /\ UNCHANGED <<corners, top_n, top, ret, vars_grid>>
    /\ UNCHANGED <<vars_max, vars_beam, vars_img, vars_gs, vars_basin, vars_fn>>

(***************************************************************************)
(* One call of search_rays on an image whose pixels are all cached in      *)
(* point_info, src/donut_corners.py:284-305, for lists of angles and of    *)
(* distances of several lengths.                                           *)
(***************************************************************************)
\* rout before the call
NoResult ==
    [done |-> FALSE, failed |-> FALSE, mode |-> 0, p |-> <<0, 0>>, info |-> <<0>>]

IdleRays ==
    /\ rin = [shape |-> <<>>, pi |-> <<>>, point |-> <<0, 0>>, angles |-> <<>>,
              dists |-> <<>>, info |-> <<0>>]
    /\ rout = NoResult

\* the starting points: the first and the middle pixel of the row
RayPoints(shape) == { <<0, 0>>, <<0, shape[2] \div 2>> }

\* the lists of angles, in eighths of a turn
RayAngleLists == { <<>>, <<0>>, <<4, 0>>, <<0, 2, 4>> }

\* the lists of distances, in tenths of a pixel
RayDistLists == { <<10>>, <<-10, 10>>, <<-20, -10, 10, 20>>, <<10, 3>> }

\* the arguments of the call and the state of the object it is made on
InitSearchRays ==
    /\ \E shape \in { <<1, MaxRayWidth, 3>> } :
        rin \in [shape : {shape}, pi : [Pixels(shape) -> AmorphousInfos],
                 point : RayPoints(shape), angles : RayAngleLists,
                 dists : RayDistLists, info : AmorphousInfos]
    /\ rout = NoResult

\* search_rays(point, angles, dists, info)
CallSearchRays ==
    /\ ~rout.done
    /\ \E res \in { search_rays(rin.shape, rin.pi, rin.point,
                        ray_probes(rin.point, rin.angles, rin.dists),
                        Length(rin.angles), rin.info) } :
        rout' = [done |-> TRUE, failed |-> res.failed, mode |-> res.mode,
                 p |-> res.p, info |-> res.info]
    /\ UNCHANGED <<rin, vars_sect>>
    /\ UNCHANGED <<vars_max, vars_beam, vars_img, vars_gs, vars_top, vars_basin, vars_grid>>

IdleSect ==
    /\ scfg = [angle_count |-> 0, beam_count |-> 0, max_n |-> 0, w |-> 0,
               no_doubles |-> FALSE, means |-> <<>>]
    /\ sret = [kind |-> "none", angles |-> <<>>, beam_ids |-> <<>>]

IdleFn == IdleRays /\ IdleSect

(***************************************************************************)
(* One call of score_point with sectional evaluation, on an object built   *)
(* by __init__ with or without the keywords angle_count and beam_count,    *)
(* src/donut_corners.py:20-54, 183-200.  An angle is a fraction of a turn, *)
(* <<numerator, denominator>>.                                             *)
(***************************************************************************)
\* self.angle_count = 12
DefaultAngleCount == 12

\* lines 28-29 and 44: angle_count and beam_count after __init__(**kwargs);
\* beam_count is computed from the default angle_count before the update
init_counts(kw) ==
    [angle_count |-> IF kw.angle_count # None THEN kw.angle_count[1]
                     ELSE DefaultAngleCount,
     beam_count |-> IF kw.beam_count # None THEN kw.beam_count[1]
                    ELSE DefaultAngleCount * 3]

\* self.baked_angles = np.linspace(0, 2*pi, self.angle_count, endpoint=False)
baked_angles(angle_count) == [k \in 0..(angle_count - 1) |-> <<k, angle_count>>]

\* maxs: max_n successive get_max_idx calls on the means
RECURSIVE top_beams(_, _, _, _)
top_beams(a, width, nd, n) ==
    IF n = 0 THEN <<>>
    ELSE <<get_max_idx_ret(a)>>
            \o top_beams(get_max_idx_vals(a, width, nd, FALSE), width, nd, n - 1)

\* lines 193-200 on the maxs ms: the angles and beam ids returned, or the
\* IndexError of indexing baked_angles at an id it does not have
sectional_result(ms, angle_count) ==
    LET beam_ids == [k \in 1..Len(ms) |-> ms[k][1]]
    IN  IF \E k \in 1..Len(ms) : beam_ids[k] >= angle_count
        THEN [kind |-> "IndexError", angles |-> <<>>, beam_ids |-> beam_ids]
        ELSE [kind |-> "returned",
              angles |-> [k \in 1..Len(ms) |-> baked_angles(angle_count)[beam_ids[k]]],
              beam_ids |-> beam_ids]

\* the means with at most two beams that respond: 2 at beam a, 1 at beam b
PeakArrays(n) ==
    { [k \in 0..(n - 1) |-> IF k = a THEN 2 ELSE IF k = b THEN 1 ELSE 0] :
        a \in 0..(n - 1), b \in 0..(n - 1) }

\* the keyword values of angle_count and beam_count
CountKeywords == { None, <<4>>, <<8>> }

\* __init__(**kwargs) and the means of one pixel
InitScorePoint ==
    /\ \E kw \in [angle_count : CountKeywords, beam_count : CountKeywords] :
       \E c \in { init_counts(kw) } :
        scfg \in [angle_count : {c.angle_count}, beam_count : {c.beam_count},
                  max_n : 1..MaxTopAngles, w : 0..1, no_doubles : BOOLEAN,
                  means : PeakArrays(c.beam_count)]
    /\ sret = [kind |-> "none", angles |-> <<>>, beam_ids |-> <<>>]

\* score_point(point) with eval_method['sectional']
ScorePointSectional ==
    /\ sret.kind = "none"
    /\ sret' = sectional_result(
                    top_beams(scfg.means, scfg.w, scfg.no_doubles, scfg.max_n),
                    scfg.angle_count)
    /\ UNCHANGED <<scfg, vars_rays>>
    /\ UNCHANGED <<vars_max, vars_beam, vars_img, vars_gs, vars_top, vars_basin, vars_grid>>

(***************************************************************************)
(* Specifications: one per part of the program.                            *)
(***************************************************************************)
InitMax ==
    /\ InitMaxArray
    /\ IdleBeam /\ IdleImage /\ IdleGetScore /\ IdleTop /\ IdleBasin /\ IdleGrid /\ IdleFn

NextMax == GetMaxIdx

SpecMax == InitMax /\ [][NextMax]_vars

InitBeam ==
    /\ InitBeamConfig
    /\ IdleMax /\ IdleImage /\ IdleGetScore /\ IdleTop /\ IdleBasin /\ IdleGrid /\ IdleFn

NextBeam == Beam \/ ScoreWithKernel

SpecBeam == InitBeam /\ [][NextBeam]_vars

InitScore ==
    /\ InitImage(ScoreShapes)
    /\ gs = NoCall
    /\ prev = [p \in Pixels(src_shape) |-> None]
    /\ IdleMax /\ IdleBeam /\ IdleTop /\ IdleBasin /\ IdleGrid /\ IdleFn

NextScore == CallGetScore \/ ScoreAll

SpecScore == InitScore /\ [][NextScore]_vars

InitTop ==
    /\ InitRanking
    /\ IdleMax /\ IdleBeam /\ IdleImage /\ IdleGetScore /\ IdleBasin /\ IdleGrid /\ IdleFn

NextTop == Rank

SpecTop == InitTop /\ [][NextTop]_vars

InitBasin == InitFindCorners /\ IdleMax /\ IdleBeam /\ IdleGrid /\ IdleFn

NextBasin == FindCornersRound \/ FindCornersCovered \/ FindCornersEmptySlice

SpecBasin == InitBasin /\ [][NextBasin]_vars

InitGrid == InitFindCornersGrid /\ IdleMax /\ IdleBeam /\ IdleBasin /\ IdleFn

NextGrid ==
    \/ DequeueSeed \/ FollowLong \/ FollowShort \/ BruteForce \/ CheckLong
    \/ PopEmpty

SpecGrid == InitGrid /\ [][NextGrid]_vars

InitRays ==
    /\ InitSearchRays
    /\ IdleMax /\ IdleBeam /\ IdleImage /\ IdleGetScore /\ IdleTop /\ IdleBasin
    /\ IdleGrid /\ IdleSect

NextRays == CallSearchRays

SpecRays == InitRays /\ [][NextRays]_vars

InitSect ==
    /\ InitScorePoint
    /\ IdleMax /\ IdleBeam /\ IdleImage /\ IdleGetScore /\ IdleTop /\ IdleBasin
    /\ IdleGrid /\ IdleRays

NextSect == ScorePointSectional

SpecSect == InitSect /\ [][NextSect]_vars
(***************************************************************************)
(* Claims about get_max_idx.                                               *)
(***************************************************************************)
\* cyclic distance between two indices of an array of length n
CycDist(i, j, n) == Min2((i - j) % n, (j - i) % n)

\* whether the call that is made passes over the antipodal band
DoubleEnds == no_doubles /\ ~gradual

\* the indices within elimination_width of an index returned before call k
Eliminated(k) ==
    { j \in DOMAIN orig :
        \E m \in 1..(k - 1) : CycDist(j, maxs[m][1], Length(orig)) <= w }

\* the indices within elimination_width of a returned index or of its antipode
BandsOfReturned ==
    { j \in DOMAIN orig :
        \E m \in 1..Len(maxs) :
            \/ CycDist(j, maxs[m][1], Length(orig)) <= w
            \/ CycDist(j, (maxs[m][1] + (Length(orig) \div 2)) % Length(orig),
                       Length(orig)) <= w }

\* C7 as stated: with double-end elimination every extraction zeroes the band
\* around the returned index and the band around its antipode, and in the
\* instance (length 24, width 2, peak 10 at 3) a secondary peak at index 16
\* survives the first extraction and is returned by the second call.
C7_Original ==
    DoubleEnds =>
        /\ vals = [j \in DOMAIN orig |-> IF j \in BandsOfReturned THEN 0 ELSE orig[j]]
        /\ (orig = TwoPeaks(16) /\ w = 2 /\ Len(maxs) >= 1) =>
                /\ maxs[1] = <<3, 10>>
                /\ Len(maxs) = 1 => vals[16] = 8
                /\ Len(maxs) >= 2 => maxs[2] = <<16, 8>>

\* C7 amended: with double-end elimination every extraction zeroes exactly the
\* band around the returned index and the band around its antipode; in the
\* instance the antipodal band of the peak at 3 is 13..17, so a secondary peak
\* at 16 is zeroed by the first extraction and the second call returns (0, 0),
\* while a secondary peak at 18 survives and is returned second.
C7_DoubleEndBands ==
    DoubleEnds =>
        /\ vals = [j \in DOMAIN orig |-> IF j \in BandsOfReturned THEN 0 ELSE orig[j]]
        /\ (orig = TwoPeaks(16) /\ w = 2 /\ Len(maxs) >= 1) =>
                /\ maxs[1] = <<3, 10>>
                /\ \A j \in 13..17 : vals[j] = 0
                /\ Len(maxs) >= 2 => maxs[2] = <<0, 0>>
        /\ (orig = TwoPeaks(18) /\ w = 2 /\ Len(maxs) >= 1) =>
                /\ maxs[1] = <<3, 10>>
                /\ Len(maxs) = 1 => vals[18] = 8
                /\ Len(maxs) >= 2 => maxs[2] = <<18, 8>>

\* C7 witness: the second extraction has returned the surviving peak at 18
C7_Witness ==
    /\ DoubleEnds /\ orig = TwoPeaks(18) /\ w = 2
    /\ Len(maxs) = 2 /\ maxs[2] = <<18, 8>> /\ vals[15] = 0

\* C8 as stated: without double-end elimination, call k returns the index and
\* value of the largest entry not within elimination_width (cyclically) of an
\* index returned earlier; the instance yields (3,10) then (15,8).
C8_Original ==
    ~DoubleEnds =>
        /\ \A k \in 1..Len(maxs) :
            /\ maxs[k][1] \notin Eliminated(k)
            /\ maxs[k][2] = orig[maxs[k][1]]
            /\ \A j \in DOMAIN orig \ Eliminated(k) : orig[j] <= maxs[k][2]
        /\ (orig = TwoPeaks(15) /\ w = 2 /\ Len(maxs) >= 2) =>
                maxs[1] = <<3, 10>> /\ maxs[2] = <<15, 8>>

\* C8 amended: without double-end elimination, whenever call k returns a
\* positive value it is the first largest entry not within elimination_width of
\* an index returned earlier; when no positive entry is left outside the
\* eliminated bands the call returns (0, 0), whether or not index 0 is inside a
\* band; the instance yields (3,10) then (15,8).
C8_SuccessiveMaxima ==
    ~DoubleEnds =>
        /\ \A k \in 1..Len(maxs) :
            LET arg == maxs[k][1]
                val == maxs[k][2]
                left == DOMAIN orig \ Eliminated(k)
            IN  /\ val > 0 =>
                    /\ arg \in left
                    /\ val = orig[arg]
                    /\ \A j \in left : orig[j] <= val
                    /\ \A j \in left : j < arg => orig[j] < val
                /\ val = 0 => arg = 0 /\ \A j \in left : orig[j] = 0
                /\ val >= 0
        /\ (orig = TwoPeaks(15) /\ w = 2 /\ Len(maxs) >= 2) =>
                maxs[1] = <<3, 10>> /\ maxs[2] = <<15, 8>>

\* C8 witness: the two calls of the instance have returned (3,10) then (15,8)
C8_Witness ==
    /\ ~DoubleEnds /\ orig = TwoPeaks(15) /\ w = 2
    /\ maxs = << <<3, 10>>, <<15, 8>> >>

(***************************************************************************)
(* Claims about the kernel set.                                            *)
(***************************************************************************)
\* whether some prong of the configuration has zero support
ZeroSupport(c) ==
    \E b \in DOMAIN beam_uvs : prong1_sum(c, b) = 0 \/ prong2_sum(c, b) = 0

\* C9: a configuration in which some prong has zero support fails at
\* construction with ConfigurationError; no kernel containing a NaN weight is
\* ever stored or used by a later score evaluation.
C9_DegenerateKernelRejected ==
    /\ (kstate # "new" /\ ZeroSupport(kcfg)) => kstate = "ConfigurationError"
    /\ spiral # None =>
            \A b \in DOMAIN spiral : \A dl \in DOMAIN spiral[b] : spiral[b][dl] # nan
    /\ kscore # "nan"

(***************************************************************************)
(* Claims about get_score.                                                 *)
(***************************************************************************)
\* C3: get_score returns exactly 0 without reading or writing the score cache
\* for every point with a coordinate outside [0, height) x [0, width), and the
\* sentinel is taken only for such points, for images with or without a
\* channel axis and whatever the cache holds.
C3_BoundsSentinel ==
    gs.kind # "none" =>
        LET outside == gs.point \notin Pixels(src_shape)
        IN  /\ outside =>
                /\ gs.kind = "returned" /\ gs.strength = 0 /\ gs.sentinel
                /\ ~gs.cache_read /\ ~gs.cache_write
            /\ gs.sentinel => outside

\* C4: a get_score call on an in-bounds point that get_score has returned a
\* strength for before (whatever the inform flags of the two calls) returns the
\* same strength and does not invoke score_point.
C4_CacheIdempotence ==
    (gs.kind = "returned" /\ gs.point \in Pixels(src_shape) /\ gs.before # None) =>
        /\ <<gs.strength>> = gs.before
        /\ ~gs.computed

(***************************************************************************)
(* Claims about the ranking.                                               *)
(***************************************************************************)
\* C2: the returned list has length min(top_n, number of corners), its
\* strengths are in non-increasing order, every returned element is an element
\* of the corner list (no element taken twice), and no corner left out is
\* stronger than a returned one; for every top_n >= 0 and every corner list.
C2_TopNRanking ==
    pc = "done" =>
        /\ Len(ret) = Min2(top_n, Len(corners))
        /\ \A k \in 1..(Len(ret) - 1) : ret[k][1] >= ret[k + 1][1]
        /\ Len(top) = Len(ret)
        /\ \A k \in 1..Len(ret) : top[k] \in 0..(Len(corners) - 1) /\ ret[k] = corners[top[k] + 1]
        /\ \A k, m \in 1..Len(top) : k # m => top[k] # top[m]
        /\ \A i \in 1..Len(corners) :
            (\A k \in 1..Len(top) : top[k] # i - 1) =>
                \A k \in 1..Len(ret) : corners[i][1] <= ret[k][1]

\* C2 witness: a list of three corners with two strengths, ranked with top_n = 2
C2_Witness ==
    /\ pc = "done" /\ Len(corners) = 3 /\ top_n = 2 /\ Len(ret) = 2
    /\ corners[1][1] < corners[2][1] /\ corners[3][1] = corners[1][1]
    /\ ret[1] = corners[2]

(***************************************************************************)
(* Claims about the basin descent search.                                  *)
(***************************************************************************)
\* the position of a corner of the basin descent search
PositionOf(c) == <<c[2], c[3]>>

\* C5: within one run of the basin descent search no position appears twice in
\* the corner list: a maximizer result is appended only if it reports "maximum
\* found" and no corner with that exact position is already in the list.
C5_NoDuplicatePosition ==
    /\ \A k, m \in 1..Len(corners) :
            k # m => PositionOf(corners[k]) # PositionOf(corners[m])
    /\ mx.appended =>
        /\ mx.exit_cause = "maximum found"
        /\ Len(corners) >= 1
        /\ PositionOf(corners[Len(corners)]) = mx.x
        /\ \A k \in 1..(Len(corners) - 1) : PositionOf(corners[k]) # mx.x

\* C5 witness: a second run ended with "maximum found" at the position of a
\* corner that is in the list, and nothing was appended
C5_Witness ==
    /\ calls = 2 /\ Len(corners) = 1
    /\ mx.exit_cause = "maximum found" /\ ~mx.appended
    /\ PositionOf(corners[1]) = mx.x

\* C6: when max_rounds is set the maximizer is invoked at most max_rounds
\* times, whatever it paints and whatever stop_percent and edge_offset are.
C6_AtMostMaxRounds ==
    fcp.max_rounds # None => calls <= fcp.max_rounds[1]

(***************************************************************************)
(* Claims about the ray-following search.                                  *)
(***************************************************************************)
\* C1: for any bounded image and any scores find_corners_grid terminates with
\* an empty work queue: whenever the loop is over, it was left by the break
\* on an empty queue and the search has returned.
C1_EndsWithEmptyQueue ==
    pc # "run" => (pc = "done" /\ Len(q) = 0)

\* the resource bound of C1 alone: at most five dequeues per pixel, one per
\* mode, whether the run returns or raises
DequeuesWithinFivePerPixel ==
    dequeues <= 5 * Cardinality(Pixels(src_shape))

\* C10: within one run of find_corners_grid on a freshly initialised image
\* each (mode, position) pair with mode in 2..5 is appended to the queue at
\* most once, and no position appears twice in the corner list.
C10_EnqueuedOnce ==
    /\ \A tp \in DOMAIN enq : tp[1] \in 2..5 /\ enq[tp] <= 1
    /\ \A k, m \in 1..Len(corners) : k # m => corners[k][2] # corners[m][2]

\* C10 witness: with a corner in the list, add was handed a task whose
\* (mode, position) had been tried before, and dropped it
C10_Witness ==
    /\ Len(corners) >= 1
    /\ last.offered # None /\ ~last.added
    /\ last.offered \in DOMAIN enq

\* a pass of the loop that took a mode-m task and whose probe gave signal sig
Dequeued(m, sig) ==
    /\ pc = "run" /\ Len(q) > 0 /\ Head(q)[1] = m
    /\ dequeues' = dequeues + 1
    /\ last'.mode = m /\ last'.mode_add = sig
    /\ pc' \in {"run", "done"}

\* C11: when a mode-4 task at p is dequeued and its probe finds no improving
\* neighbour, exactly one corner (score(p), p, detail of p) is appended, a
\* mode-5 task at p carrying half of score(p) is enqueued, and the caches of p
\* are left as they were.
C11_LocalMaxAppended ==
    [][Dequeued(4, -1) =>
        LET p == Head(q)[2]
        IN  /\ p \in DOMAIN point_info
            /\ point_info'[p] = point_info[p]
            /\ field'[p] = field[p]
            /\ scored_partial'[p] = scored_partial[p]
            /\ scored_partial[p] = point_info[p][1]
            /\ corners' = Append(corners, <<point_info[p][1], p, point_info[p]>>)
            /\ q' = Append(Tail(q), <<5, p, <<point_info[p][1] \div 2>> \o Tail(point_info[p])>>)
            /\ 2 * q'[Len(q')][3][1] = point_info[p][1]
            /\ <<5, p[1], p[2]>> \in mode_points_tried']_vars

\* C11 witness: a mode-4 task was dequeued with signal -1 and a corner of
\* positive strength and the mode-5 task at its point are there
C11_Witness ==
    /\ last.mode = 4 /\ last.mode_add = -1 /\ last.added
    /\ Len(corners) >= 1 /\ corners[Len(corners)][1] > 0
    /\ Len(q) >= 1 /\ q[Len(q)][1] = 5

\* C12: when a mode-5 task is dequeued and its probe finds an improving
\* neighbour, a mode-2 task at that neighbour carrying the neighbour's cached
\* detail is handed to add; if it finds none, nothing is enqueued.  A mode-5
\* task never appends a corner and never enqueues a task of mode 3, 4 or 5.
C12_CheckLongRestarts ==
    [][\A sig \in {-1, 0, 1} : Dequeued(5, sig) =>
        LET nb == last'.point2
        IN  /\ corners' = corners
            /\ IF sig = -1
               THEN q' = Tail(q) /\ mode_points_tried' = mode_points_tried
               ELSE /\ nb # Head(q)[2]
                    /\ nb \in DOMAIN point_info'
                    /\ point_info'[nb][1] > Head(q)[3][1]
                    /\ mode_points_tried' = mode_points_tried \cup { <<2, nb[1], nb[2]>> }
                    /\ q' = IF <<2, nb[1], nb[2]>> \in mode_points_tried
                            THEN Tail(q)
                            ELSE Append(Tail(q), <<2, nb, point_info'[nb]>>)]_vars

\* C12 witness: a mode-5 task found an improving neighbour never followed
\* before, and the mode-2 task at it is the last of the queue
C12_Witness ==
    /\ last.mode = 5 /\ last.mode_add # -1 /\ last.added
    /\ Len(q) >= 1 /\ q[Len(q)][1] = 2 /\ q[Len(q)][2] = last.point2
    /\ Len(corners) >= 1

\* C13: when a task of mode m in {2, 3} is dequeued, or a mode-4 task whose
\* probe found an improving neighbour, the task handed to add has mode
\* m + |signal| and sits at the best point of the probe: the improving
\* neighbour on signal 0 or 1, the unchanged point on signal -1; its mode is
\* never lower than m.
C13_FollowUpMode ==
    [][\A m \in 2..4 : \A sig \in {-1, 0, 1} :
        (Dequeued(m, sig) /\ ~(m = 4 /\ sig = -1)) =>
        LET p == Head(q)[2]
            p2 == last'.point2
            tp == <<m + Abs(sig), p2[1], p2[2]>>
            info2 == IF sig = -1 THEN Head(q)[3] ELSE point_info'[p2]
        IN  /\ corners' = corners
            /\ last'.offered = tp
            /\ tp[1] >= m /\ tp[1] <= 4
            /\ (sig = -1) = (p2 = p)
            /\ sig # -1 => point_info'[p2][1] > Head(q)[3][1]
            /\ mode_points_tried' = mode_points_tried \cup {tp}
            /\ q' = IF tp \in mode_points_tried THEN Tail(q)
                    ELSE Append(Tail(q), <<tp[1], p2, info2>>)]_vars

\* C13 witness: a mode-3 task found its best neighbour at an interior index
\* and the mode-4 task at that neighbour was enqueued
C13_Witness ==
    /\ last.mode = 3 /\ last.mode_add = 1 /\ last.added
    /\ last.point2 # last.point
    /\ last.offered = <<4, last.point2[1], last.point2[2]>>

\* C20: when the seed grid is empty, so that no mode-1 task is enqueued,
\* find_corners_grid does not dequeue from the empty queue: it raises nothing
\* and what it returns is the empty list.
C20_EmptySeedGridReturns ==
    (gcfg.single_point = None /\ Length(grid_points(src_shape, gcfg.grid_size)) = 0) =>
        /\ pc \in {"run", "done"}
        /\ pc = "done" => ret = <<>>

(***************************************************************************)
(* Claims about search_rays.                                               *)
(***************************************************************************)
\* the probes of the call in rin
RinProbes == ray_probes(rin.point, rin.angles, rin.dists)

\* the probes of the call that are in bounds and score above the carried strength
RinBetter ==
    { k \in DOMAIN RinProbes :
        /\ ~out_of_bounds(rin.shape, RinProbes[k].new_p)
        /\ rin.pi[RinProbes[k].new_p][1] > rin.info[1] }

\* among them, the probes of the highest score
RinBest ==
    { k \in RinBetter :
        \A j \in RinBetter :
            rin.pi[RinProbes[j].new_p][1] <= rin.pi[RinProbes[k].new_p][1] }

\* C14: search_rays returns signal -1 exactly when no in-bounds probe scores
\* above the carried strength, and then the point itself with the carried
\* info; otherwise it returns a highest-scoring probe point, with signal 0 if
\* that probe has the first or the last index of the distance list and signal
\* 1 if it has an interior index, for any number of angles and distances.
C14_RaySignal ==
    (rout.done /\ ~rout.failed) =>
        IF RinBetter = {}
        THEN rout.mode = -1 /\ rout.p = rin.point /\ rout.info = rin.info
        ELSE \E k \in RinBest :
                /\ rout.p = RinProbes[k].new_p
                /\ rout.info = rin.pi[rout.p]
                /\ rout.mode = IF RinProbes[k].new_i = 0
                                  \/ RinProbes[k].new_i = Len(rin.dists) - 1
                               THEN 0 ELSE 1

(***************************************************************************)
(* Further claims about the ray-following search.                          *)
(***************************************************************************)
\* C15: a probe whose rounded offset point is the starting point itself is
\* skipped and the search goes on with the remaining probes: no pass of the
\* loop fails on it, for every beam_length > 0 and every carried angle.
C15_ZeroOffsetSkipped ==
    pc # "AssertionError"

\* the offsets of the 8 compass neighbours
Compass == ((-1..1) \X (-1..1)) \ { <<0, 0>> }

\* C16: every corner of the ray-following search is a local maximum of the
\* score field: its strength is the cached score of its position, and no
\* in-bounds pixel among its 8 compass neighbours scores strictly higher; the
\* probes of mode 4 are exactly those 8 neighbours.
C16_CornersAreLocalMaxima ==
    /\ { ray_offset(brute_angles[k], ray_dists(4, 1)[1]) : k \in 1..8 } = Compass
    /\ \A k \in 1..Len(corners) :
        LET p == corners[k][2]
        IN  /\ p \in DOMAIN point_info
            /\ corners[k][1] = point_info[p][1]
            /\ corners[k][1] = scored_partial[p]
            /\ corners[k][3] = point_info[p]
            /\ \A d \in Compass :
                LET nb == <<p[1] + d[1], p[2] + d[2]>>
                IN  nb \in Pixels(src_shape) =>
                        /\ nb \in DOMAIN point_info
                        /\ point_info[nb][1] <= corners[k][1]

\* the positions of the corners found
CornerPositions == { corners[k][2] : k \in 1..Len(corners) }

\* C17: in every reachable state of find_corners_grid every queued task has a
\* mode in 1..5, every mode-5 task in the queue or the visited set sits at a
\* position of the corner list, and every task of mode 2, 3 or 4 carries the
\* unhalved cached detail of its own position.
C17_ModesAndCarriedDetail ==
    /\ \A k \in 1..Len(q) :
        /\ q[k][1] \in 1..5
        /\ q[k][1] = 5 => q[k][2] \in CornerPositions
        /\ q[k][1] \in 2..4 =>
            /\ q[k][2] \in DOMAIN point_info
            /\ q[k][3] = point_info[q[k][2]]
    /\ \A tp \in mode_points_tried :
        /\ tp[1] \in 2..5
        /\ tp[1] = 5 => <<tp[2], tp[3]>> \in CornerPositions

\* C17 witness: the queue holds a mode-5 task at a corner and, behind it, a
\* task of mode 2, 3 or 4 that was spawned by a mode-4 task
C17_Witness ==
    /\ Len(q) >= 2
    /\ q[1][1] = 5 /\ q[1][2] \in CornerPositions
    /\ q[Len(q)][1] \in 2..4
    /\ last.mode = 4 /\ last.mode_add = 0 /\ last.added

\* C19 as stated: every corner recorded by find_corners_grid has a strength
\* strictly greater than min_grid.
C19_Original ==
    \A k \in 1..Len(corners) : corners[k][1] > gcfg.min_grid

\* every corner is above min_grid, or above half the strength of a corner
\* found before it
CornerAboveThresholdOrHalf ==
    \A k \in 1..Len(corners) :
        \/ corners[k][1] > gcfg.min_grid
        \/ \E j \in 1..(k - 1) : 2 * corners[k][1] > corners[j][1]

\* C19 amended: a seed whose score does not exceed min_grid spawns no task,
\* and every corner is stronger than min_grid or stronger than half of a
\* corner recorded before it (the mode-5 task compares with the halved
\* strength), the first corner being stronger than min_grid.
C19_ThresholdOrHalf ==
    [][/\ (Dequeued(1, 0) /\ point_info'[Head(q)[2]][1] <= gcfg.min_grid) =>
            (q' = Tail(q) /\ mode_points_tried' = mode_points_tried /\ corners' = corners)
       /\ CornerAboveThresholdOrHalf']_vars

\* C19 witness: a corner at or below min_grid was recorded after a stronger one
C19_Witness ==
    /\ Len(corners) >= 2
    /\ corners[1][1] > gcfg.min_grid
    /\ corners[Len(corners)][1] <= gcfg.min_grid
    /\ pc = "done"

(***************************************************************************)
(* Claims about sectional scoring.                                         *)
(***************************************************************************)
\* C18: in sectional mode, for every configuration of angle_count and
\* beam_count, score_point never indexes outside the table of baked angles,
\* and each reported angle is the orientation of the beam whose index is
\* reported with it: angle = index / beam_count of a turn.
C18_AngleOfReportedBeam ==
    sret.kind # "none" =>
        /\ sret.kind = "returned"
        /\ \A k \in 1..Len(sret.angles) :
            sret.angles[k][1] * scfg.beam_count = sret.beam_ids[k] * sret.angles[k][2]

====
